---- MODULE Spec2Model ----
(***************************************************************************)
(* A model of flax.nnx Module (src/flax/nnx/nnx/module.py): a heap of      *)
(* Module objects holding named attributes, and the operations sow,        *)
(* iter_modules, set_attributes, train, eval and the pytree hooks          *)
(* _module_flatten / _module_unflatten.                                    *)
(*                                                                         *)
(* Every operation is one atomic action that runs the whole method on the  *)
(* heap and leaves a record of the call (its arguments, the exception it   *)
(* raised, what it returned) together with a snapshot of the heap before   *)
(* the call; Return is the caller going on and dropping that record.       *)
(***************************************************************************)
EXTENDS Integers, Sequences, FiniteSets, TLC

VARIABLES
  cls,     \* cls[m]: the Python class of module object m
  attrs,   \* attrs[m][name]: the attribute `name` of module object m
  pc,      \* "idle"; "returned" right after a call; "flattened" between the pytree hooks
  call,    \* the last call: operation, receiver, arguments
  ret,     \* the outcome of the last call
  old,     \* attrs as it was when the last call started
  sown     \* sown[m][name]: the successful sow calls that built attribute name

vars == <<cls, attrs, pc, call, ret, old, sown>>

(* ------------------------------ bounds -------------------------------- *)

\* Module objects in the heaps that iter_modules and the pytree hooks read.
NumModules == 3
\* Module objects in the heaps that sow, set_attributes, train and eval write.
NumCallModules == 2
\* Longest tuple of filters passed to set_attributes.
MaxFilters == 2
\* Most values sown into one heap.
MaxSow == 2

(* ------------------------------ values -------------------------------- *)

\* Attribute names in the order sorted() gives them.
AttrOrder == <<"a", "b", "deterministic", "i", "kernel", "use_running_average">>
AttrNames == {AttrOrder[k] : k \in 1 .. Len(AttrOrder)}
ChildKeys == {"a", "b"}

ModuleClasses == {"Linear", "Dropout", "BatchNorm"}
VariableTypes == {"Variable", "Intermediate"}

\* A Python value held by an attribute.  One record shape for all kinds.
NoRaw == [tag |-> "none", xs |-> <<>>, n |-> 0]
TupleRaw(xs) == [tag |-> "tuple", xs |-> xs, n |-> 0]
IntRaw(n) == [tag |-> "int", xs |-> <<>>, n |-> n]
Absent == [kind |-> "absent", type |-> "", b |-> FALSE, id |-> 0, raw_value |-> NoRaw]
Plain(b) == [kind |-> "bool", type |-> "bool", b |-> b, id |-> 0, raw_value |-> NoRaw]
ModuleRef(m) == [kind |-> "Module", type |-> "", b |-> FALSE, id |-> m, raw_value |-> NoRaw]
Variable(t, raw) == [kind |-> "Variable", type |-> t, b |-> FALSE, id |-> 0, raw_value |-> raw]

hasattr(h, m, name) == h[m][name].kind # "absent"
isinstance_Variable(v) == v.kind = "Variable"
isinstance_Module(v) == v.kind = "Module"

(* --------------------------- graph traversal -------------------------- *)

\* The attribute names module m has, in sorted order.
NodeKeys(h, m) == SelectSeq(AttrOrder, LAMBDA k : hasattr(h, m, k))

\* graph.iter_graph: every value reachable from `node`, children before the
\* node itself, each with the tuple of keys leading to it.
RECURSIVE iter_graph(_, _, _)
RECURSIVE iter_graph_keys(_, _, _, _, _)
iter_graph_keys(h, m, keys, k, path) ==
  IF k > Len(keys) THEN <<>>
  ELSE iter_graph(h, h[m][keys[k]], Append(path, keys[k]))
         \o iter_graph_keys(h, m, keys, k + 1, path)
iter_graph(h, node, path) ==
  IF isinstance_Module(node)
    THEN iter_graph_keys(h, node.id, NodeKeys(h, node.id), 1, path)
           \o << <<path, node>> >>
    ELSE << <<path, node>> >>

\* iter_modules without the isinstance test.
iter_modules_unfiltered(h, self) == iter_graph(h, ModuleRef(self), <<>>)

\* Module.iter_modules: the Modules among what iter_graph yields.
iter_modules(h, self) ==
  SelectSeq(iter_graph(h, ModuleRef(self), <<>>),
            LAMBDA pv : isinstance_Module(pv[2]))

(* ------------------------------ filters ------------------------------- *)

\* A filter is the literal True or a Module class (an OfType filter).
Filters == {"Dropout", "BatchNorm"}
FilterTuples == UNION {[1 .. n -> Filters] : n \in 0 .. MaxFilters}

\* filterlib.to_predicate(filter)(path, module)
to_predicate(filter, path, m) ==
  IF filter = "True" THEN TRUE ELSE cls[m] = filter

(* --------------------------- set_attributes --------------------------- *)

SetNames == {"deterministic", "use_running_average"}
\* The keyword arguments: a dict from some names to values.
AttributeDicts == UNION {[S -> BOOLEAN] : S \in SUBSET SetNames}

\* The assignment without the hasattr test.
SetOnModule_no_hasattr(h, m, attributes) ==
  [h EXCEPT ![m] =
     [name \in AttrNames |->
        IF name \in DOMAIN attributes THEN Plain(attributes[name]) ELSE h[m][name]]]

\* The innermost loop: every given name the module has is assigned.
SetOnModule(h, m, attributes) ==
  [h EXCEPT ![m] =
     [name \in AttrNames |->
        IF name \in DOMAIN attributes /\ hasattr(h, m, name)
          THEN Plain(attributes[name])
          ELSE h[m][name]]]

\* The names that loop removes from remaining_attributes.
FoundOnModule(h, m, attributes) ==
  {name \in DOMAIN attributes : hasattr(h, m, name)}

\* The filters ignored.
Selected_every_module(predicates, path, m) == TRUE

\* Whether the loop over the predicates reaches one that holds.
Selected(predicates, path, m) ==
  \E j \in 1 .. Len(predicates) : to_predicate(predicates[j], path, m)

\* The loop over iter_modules; st carries the heap and remaining_attributes.
RECURSIVE SetLoop(_, _, _, _, _)
SetLoop(mods, k, predicates, attributes, st) ==
  IF k > Len(mods) THEN st
  ELSE LET path == mods[k][1]
           m == mods[k][2].id
       IN SetLoop(mods, k + 1, predicates, attributes,
            IF Selected(predicates, path, m)
              THEN [heap |-> SetOnModule(st.heap, m, attributes),
                    remaining |-> st.remaining \ FoundOnModule(st.heap, m, attributes)]
              ELSE st)

\* raise_if_not_found ignored.
set_attributes_always_raises(h, self, filters, raise_if_not_found, attributes) ==
  LET predicates == IF Len(filters) = 0 THEN <<"True">> ELSE filters
      st == SetLoop(iter_modules(h, self), 1, predicates, attributes,
                    [heap |-> h, remaining |-> DOMAIN attributes])
  IN [heap |-> st.heap,
      raised |-> IF st.remaining # {} THEN "ValueError" ELSE "none"]

\* Module.set_attributes: the heap it leaves and whether it raises.
set_attributes(h, self, filters, raise_if_not_found, attributes) ==
  LET predicates == IF Len(filters) = 0 THEN <<"True">> ELSE filters
      st == SetLoop(iter_modules(h, self), 1, predicates, attributes,
                    [heap |-> h, remaining |-> DOMAIN attributes])
  IN [heap |-> st.heap,
      raised |-> IF st.remaining # {} /\ raise_if_not_found
                   THEN "ValueError" ELSE "none"]

\* The keyword arguments train() and eval() pass on.
train_attributes == [name \in SetNames |-> FALSE]
\* eval() with use_running_average left at its training value.
eval_attributes_half == [name \in SetNames |-> name = "deterministic"]
eval_attributes == [name \in SetNames |-> TRUE]

(* -------------------------------- sow --------------------------------- *)

SowNames == {"deterministic", "i"}
SowValues == {1, 2}
\* The (reduce_fn, init_fn) pairs: the defaults (tuple_reduce, tuple_init), and
\* (lambda prev, curr: prev + curr, lambda: 0).
SowFns == {"tuple", "sum"}

init_fn(fns) == IF fns = "tuple" THEN TupleRaw(<<>>) ELSE IntRaw(0)

\* Whether reduce_fn(xs, x) returns; adding a tuple and an int is a TypeError.
reduce_ok(fns, xs) == (fns = "tuple" /\ xs.tag = "tuple") \/ (fns = "sum" /\ xs.tag = "int")

reduce_fn(fns, xs, x) ==
  IF fns = "tuple" THEN TupleRaw(Append(xs.xs, x)) ELSE IntRaw(xs.n + x)

\* isinstance(variable, variable_type) in place of the comparison of exact types.
type_differs_isinstance(variable, variable_type) ==
  ~(variable.type = variable_type \/ variable_type = "Variable")

\* type(variable) != variable_type
type_differs(variable, variable_type) == variable.type # variable_type

\* The accumulated value dropped: reduce_fn applied to a fresh init_fn().
sow_update_from_init(variable, value, fns) == reduce_fn(fns, init_fn(fns), value)

\* The new raw_value of a Variable that exists.
sow_update(variable, value, fns) == reduce_fn(fns, variable.raw_value, value)

\* Module.sow: the heap it leaves, what it raises, which functions it called.
sow(h, self, variable_type, name, value, fns) ==
  LET variable == h[self][name]
      fail(e, called) == [heap |-> h, raised |-> e,
                          reduce_called |-> called, init_called |-> FALSE]
  IN IF hasattr(h, self, name)
       THEN IF ~isinstance_Variable(variable) THEN fail("ValueError", FALSE)
            ELSE IF type_differs(variable, variable_type) THEN fail("ValueError", FALSE)
            ELSE IF ~reduce_ok(fns, variable.raw_value) THEN fail("TypeError", TRUE)
            ELSE [heap |-> [h EXCEPT ![self][name].raw_value =
                                       sow_update(variable, value, fns)],
                  raised |-> "none", reduce_called |-> TRUE, init_called |-> FALSE]
       ELSE [heap |-> [h EXCEPT ![self][name] =
                                  Variable(variable_type, reduce_fn(fns, init_fn(fns), value))],
             raised |-> "none", reduce_called |-> TRUE, init_called |-> TRUE]

(* ------------------------------- pytree ------------------------------- *)

KeyIndex(key) == CHOOSE k \in 1 .. Len(AttrOrder) : AttrOrder[k] = key

\* Python's order on tuples of keys.
RECURSIVE PathLess(_, _)
PathLess(p, q) ==
  IF q = <<>> THEN FALSE
  ELSE IF p = <<>> THEN TRUE
  ELSE IF Head(p) # Head(q) THEN KeyIndex(Head(p)) < KeyIndex(Head(q))
  ELSE PathLess(Tail(p), Tail(q))

\* sorted() of a list of (path, value) pairs whose paths differ.
RECURSIVE sorted(_)
sorted(items) ==
  IF items = <<>> THEN <<>>
  ELSE LET k == CHOOSE k \in 1 .. Len(items) :
                  \A j \in 1 .. Len(items) : j # k => PathLess(items[k][1], items[j][1])
       IN <<items[k]>> \o sorted(SubSeq(items, 1, k - 1) \o SubSeq(items, k + 1, Len(items)))

\* The value a path of keys leads to from value v.
RECURSIVE getpath(_, _, _)
getpath(h, v, path) ==
  IF path = <<>> THEN v
  ELSE IF ~isinstance_Module(v) THEN Absent
  ELSE getpath(h, h[v.id][Head(path)], Tail(path))

\* graph.split: the structure without the Variables' values (graphdef), and
\* the flat mapping from path to Variable (state).
split(h, self) ==
  LET leaves == SelectSeq(iter_graph(h, ModuleRef(self), <<>>),
                          LAMBDA pv : isinstance_Variable(pv[2]))
      paths == {leaves[k][1] : k \in 1 .. Len(leaves)}
  IN [graphdef |->
        [root |-> self,
         nodes |-> [m \in DOMAIN h |-> [name \in AttrNames |->
                      IF isinstance_Variable(h[m][name])
                        THEN Variable(h[m][name].type, NoRaw) ELSE h[m][name]]]],
      state |-> [p \in paths |-> getpath(h, ModuleRef(self), p)]]

\* graph.merge: the graphdef's structure with each Variable taken from state.
merge(graphdef, state) ==
  LET owner(p) == getpath(graphdef.nodes, ModuleRef(graphdef.root), SubSeq(p, 1, Len(p) - 1))
      at(m, name) == {p \in DOMAIN state :
                        /\ p # <<>>
                        /\ p[Len(p)] = name
                        /\ owner(p) = ModuleRef(m)}
  IN [m \in DOMAIN graphdef.nodes |-> [name \in AttrNames |->
        IF isinstance_Variable(graphdef.nodes[m][name]) /\ at(m, name) # {}
          THEN state[CHOOSE p \in at(m, name) : TRUE]
          ELSE graphdef.nodes[m][name]]]

\* The children taken in the mapping's own order, the keys sorted.
_module_flatten_children_unsorted(graphdef, items, with_keys) ==
  LET key_values == sorted(items)
      keys == [k \in 1 .. Len(key_values) |-> key_values[k][1]]
  IN [children |-> IF with_keys
                     THEN [k \in 1 .. Len(items) |-> <<items[k][1], items[k][2]>>]
                     ELSE [k \in 1 .. Len(items) |-> items[k][2]],
      keys |-> keys,
      graphdef |-> graphdef]

\* _module_flatten, given state.raw_mapping.items() as the list `items`.
_module_flatten(graphdef, items, with_keys) ==
  LET key_values == sorted(items)
      keys == [k \in 1 .. Len(key_values) |-> key_values[k][1]]
  IN [children |-> IF with_keys
                     THEN [k \in 1 .. Len(key_values) |->
                             <<key_values[k][1], key_values[k][2]>>]
                     ELSE [k \in 1 .. Len(key_values) |-> key_values[k][2]],
      keys |-> keys,
      graphdef |-> graphdef]

\* State(zip(paths, variables)): the mapping of each path to its variable.
State_zip(paths, variables) ==
  LET n == IF Len(paths) < Len(variables) THEN Len(paths) ELSE Len(variables)
  IN [p \in {paths[k] : k \in 1 .. n} |->
        variables[CHOOSE k \in 1 .. n : paths[k] = p /\ \A j \in (k + 1) .. n : paths[j] # p]]

\* _module_unflatten
_module_unflatten(paths, graphdef, variables) ==
  merge(graphdef, State_zip(paths, variables))

\* jax hands the unflatten function the children alone, also when the flatten
\* function registered with keys returned (key, child) pairs.
pytree_children(children, with_keys) ==
  IF with_keys THEN [k \in 1 .. Len(children) |-> children[k][2]] ELSE children

\* Every order in which a state's items can come.
ItemOrders(state) ==
  LET n == Cardinality(DOMAIN state)
  IN {[k \in 1 .. n |-> <<f[k], state[f[k]]>>] :
        f \in {g \in [1 .. n -> DOMAIN state] : \A i, j \in 1 .. n : i # j => g[i] # g[j]}}

(* ---------------------------- call records ---------------------------- *)

NoCall == [op |-> "none", self |-> 0, filters |-> <<>>, raise_if_not_found |-> FALSE,
           attributes |-> <<>>, variable_type |-> "", name |-> "", value |-> 0,
           fns |-> "", with_keys |-> FALSE]
NoRet == [raised |-> "none", reduce_called |-> FALSE, init_called |-> FALSE,
          yielded |-> <<>>, children |-> <<>>, keys |-> <<>>, graphdef |-> <<>>,
          module |-> <<>>]

(* ------------------------------ actions ------------------------------- *)

\* How many values the sow calls on record have stored.
RECURSIVE SumLen(_, _)
SumLen(log, S) ==
  IF S = {} THEN 0
  ELSE LET x == CHOOSE x \in S : TRUE
       IN Len(log[x[1]][x[2]]) + SumLen(log, S \ {x})
TotalSown(log) == SumLen(log, (DOMAIN log) \X AttrNames)

Sow(self, variable_type, name, value, fns) ==
  LET r == sow(attrs, self, variable_type, name, value, fns)
      n == Len(sown[self][name])
  IN /\ pc = "idle"
     /\ TotalSown(sown) < MaxSow
     /\ attrs' = r.heap
     /\ old' = attrs
     /\ call' = [NoCall EXCEPT !.op = "sow", !.self = self, !.variable_type = variable_type,
                   !.name = name, !.value = value, !.fns = fns]
     /\ ret' = [NoRet EXCEPT !.raised = r.raised, !.reduce_called = r.reduce_called,
                  !.init_called = r.init_called]
     /\ sown' = IF r.raised = "none" /\ (n > 0 \/ ~hasattr(attrs, self, name))
                  THEN [sown EXCEPT ![self][name] =
                          Append(@, [variable_type |-> variable_type, fns |-> fns,
                                     value |-> value])]
                  ELSE sown
     /\ pc' = "returned"
     /\ UNCHANGED cls

IterModules(self) ==
  /\ pc = "idle"
  /\ call' = [NoCall EXCEPT !.op = "iter_modules", !.self = self]
  /\ ret' = [NoRet EXCEPT !.yielded = iter_modules(attrs, self)]
  /\ old' = attrs
  /\ pc' = "returned"
  /\ UNCHANGED <<cls, attrs, sown>>

SetAttributes(self, filters, raise_if_not_found, attributes) ==
  LET r == set_attributes(attrs, self, filters, raise_if_not_found, attributes)
  IN /\ pc = "idle"
     /\ attrs' = r.heap
     /\ old' = attrs
     /\ call' = [NoCall EXCEPT !.op = "set_attributes", !.self = self,
                   !.filters = filters, !.raise_if_not_found = raise_if_not_found,
                   !.attributes = attributes]
     /\ ret' = [NoRet EXCEPT !.raised = r.raised]
     /\ pc' = "returned"
     /\ UNCHANGED <<cls, sown>>

Train(self) ==
  LET r == set_attributes(attrs, self, <<>>, FALSE, train_attributes)
  IN /\ pc = "idle"
     /\ attrs' = r.heap
     /\ old' = attrs
     /\ call' = [NoCall EXCEPT !.op = "train", !.self = self]
     /\ ret' = [NoRet EXCEPT !.raised = r.raised]
     /\ pc' = "returned"
     /\ UNCHANGED <<cls, sown>>

Eval(self) ==
  LET r == set_attributes(attrs, self, <<>>, FALSE, eval_attributes)
  IN /\ pc = "idle"
     /\ attrs' = r.heap
     /\ old' = attrs
     /\ call' = [NoCall EXCEPT !.op = "eval", !.self = self]
     /\ ret' = [NoRet EXCEPT !.raised = r.raised]
     /\ pc' = "returned"
     /\ UNCHANGED <<cls, sown>>

\* jax flattens module `self`: _module_flatten on what graph.split returns.
Flatten(self, with_keys) ==
  LET s == split(attrs, self)
  IN /\ pc = "idle"
     /\ \E items \in ItemOrders(s.state) :
          LET r == _module_flatten(s.graphdef, items, with_keys)
          IN ret' = [NoRet EXCEPT !.children = r.children, !.keys = r.keys,
                       !.graphdef = r.graphdef]
     /\ call' = [NoCall EXCEPT !.op = "flatten", !.self = self, !.with_keys = with_keys]
     /\ old' = attrs
     /\ pc' = "flattened"
     /\ UNCHANGED <<cls, attrs, sown>>

\* jax rebuilds the module from the auxiliary data and the children.
Unflatten ==
  /\ pc = "flattened"
  /\ ret' = [ret EXCEPT !.module =
               _module_unflatten(ret.keys, ret.graphdef,
                                pytree_children(ret.children, call.with_keys))]
  /\ call' = [call EXCEPT !.op = "unflatten"]
  /\ pc' = "returned"
  /\ UNCHANGED <<cls, attrs, old, sown>>

\* The caller goes on.
Return ==
  /\ pc # "idle"
  /\ pc' = "idle"
  /\ call' = NoCall
  /\ ret' = NoRet
  /\ old' = attrs
  /\ UNCHANGED <<cls, attrs, sown>>

(* --------------------------- initial states --------------------------- *)

KernelValues == {1, 2}

\* The attributes the constructor of each class sets.
ClassAttrs(c, b, w) ==
  [name \in AttrNames |->
     IF (c = "Dropout" /\ name = "deterministic")
        \/ (c = "BatchNorm" /\ name = "use_running_average")
       THEN Plain(b)
     ELSE IF c = "Linear" /\ name = "kernel" THEN Variable("Param", IntRaw(w))
     ELSE Absent]

\* Module 0 is the root; every other module is the attribute key[m] of an
\* earlier module parent[m], no two siblings under the same key.
Trees(ids) ==
  {t \in [parent : [ids \ {0} -> ids], key : [ids \ {0} -> ChildKeys]] :
     /\ \A m \in ids \ {0} : t.parent[m] < m
     /\ \A m, n \in ids \ {0} :
          (m # n /\ t.parent[m] = t.parent[n]) => t.key[m] # t.key[n]}

TreeHeap(ids, t, c, b, w) ==
  [m \in ids |->
     [name \in AttrNames |->
        IF \E n \in ids \ {0} : t.parent[n] = m /\ t.key[n] = name
          THEN ModuleRef(CHOOSE n \in ids \ {0} : t.parent[n] = m /\ t.key[n] = name)
          ELSE ClassAttrs(c[m], b[m], w[m])[name]]]

InitCall ==
  /\ pc = "idle"
  /\ call = NoCall
  /\ ret = NoRet
  /\ old = attrs
  /\ sown = [m \in DOMAIN attrs |-> [name \in AttrNames |-> <<>>]]

\* Heaps for set_attributes, train and eval: any tree, any classes, any flags.
InitSet ==
  LET ids == 0 .. (NumCallModules - 1)
  IN /\ cls \in [ids -> ModuleClasses]
     /\ \E t \in Trees(ids), b \in [ids -> BOOLEAN] :
          attrs = TreeHeap(ids, t, cls, b, [m \in ids |-> 1])
     /\ InitCall

\* The heap for sow: a chain of modules under the key "a", freshly constructed.
InitSow ==
  LET ids == 0 .. (NumCallModules - 1)
      classes == <<"Linear", "Dropout", "BatchNorm">>
      chain == [parent |-> [m \in ids \ {0} |-> m - 1], key |-> [m \in ids \ {0} |-> "a"]]
  IN /\ cls = [m \in ids |-> classes[(m % 3) + 1]]
     /\ attrs = TreeHeap(ids, chain, cls, [m \in ids |-> FALSE], [m \in ids |-> 1])
     /\ InitCall

\* Heaps for iter_modules and the pytree hooks: any tree, any classes, any kernels.
InitGraph ==
  LET ids == 0 .. (NumModules - 1)
  IN /\ cls \in [ids -> ModuleClasses]
     /\ \E t \in Trees(ids), w \in [ids -> KernelValues] :
          attrs = TreeHeap(ids, t, cls, [m \in ids |-> FALSE], w)
     /\ InitCall

(* --------------------------- specifications --------------------------- *)

\* A call starts only when the caller is idle.
NextSow ==
  \/ /\ pc = "idle"
     /\ \E self \in DOMAIN attrs, variable_type \in VariableTypes, name \in SowNames,
           value \in SowValues, fns \in SowFns :
          Sow(self, variable_type, name, value, fns)
  \/ Return

NextSet ==
  \/ /\ pc = "idle"
     /\ \E self \in DOMAIN attrs, filters \in FilterTuples, r \in BOOLEAN,
           a \in AttributeDicts :
          SetAttributes(self, filters, r, a)
  \/ \E self \in DOMAIN attrs : Train(self)
  \/ \E self \in DOMAIN attrs : Eval(self)
  \/ Return

NextGraph ==
  \/ \E self \in DOMAIN attrs : IterModules(self)
  \/ /\ pc = "idle"
     /\ \E self \in DOMAIN attrs, with_keys \in BOOLEAN : Flatten(self, with_keys)
  \/ Unflatten
  \/ Return

SpecSow == InitSow /\ [][NextSow]_vars
SpecSet == InitSet /\ [][NextSet]_vars
SpecGraph == InitGraph /\ [][NextGraph]_vars

(* ------------------------------- claims ------------------------------- *)

\* The modules nested in module self: the least set holding self and every
\* Module an attribute of one of its members holds.
RECURSIVE Closure(_, _)
Closure(h, S) ==
  LET T == S \cup {h[m][name].id : <<m, name>> \in
                     {x \in S \X AttrNames : isinstance_Module(h[x[1]][x[2]])}}
  IN IF T = S THEN S ELSE Closure(h, T)
Reachable(h, self) == Closure(h, {self})

IsProperPrefix(p, q) == Len(p) < Len(q) /\ SubSeq(q, 1, Len(p)) = p

RECURSIVE SumValues(_)
SumValues(log) == IF log = <<>> THEN 0 ELSE log[1].value + SumValues(Tail(log))

\* What n sow calls on record leave: the tuple of their values in call order
\* under the defaults, init_fn() plus their sum under the sum pair.
ExpectedRaw(log) ==
  IF log[1].fns = "tuple"
    THEN TupleRaw([k \in 1 .. Len(log) |-> log[k].value])
    ELSE IntRaw(0 + SumValues(log))

Called(op) == pc = "returned" /\ call.op = op

\* C1: an attribute that n >= 1 successful sow calls with one variable_type and
\* one (reduce_fn, init_fn) built from nothing is a Variable of exactly that type
\* whose value is the calls' values folded by reduce_fn from init_fn(), the tuple
\* (v_1, ..., v_n) in call order under the defaults; and a sow call calls init_fn
\* exactly when the attribute did not exist.
C1_SowAccumulates ==
  /\ \A m \in DOMAIN attrs, name \in AttrNames :
       LET log == sown[m][name]
       IN (/\ log # <<>>
           /\ \A k \in 1 .. Len(log) :
                /\ log[k].variable_type = log[1].variable_type
                /\ log[k].fns = log[1].fns)
          => attrs[m][name] = Variable(log[1].variable_type, ExpectedRaw(log))
  /\ Called("sow") => (ret.init_called <=> ~hasattr(old, call.self, call.name))

\* Two values sown one after the other, the larger first.
C1_Witness ==
  \E m \in DOMAIN attrs, name \in AttrNames :
    /\ Len(sown[m][name]) >= 2
    /\ sown[m][name][1].value > sown[m][name][2].value
    /\ Called("sow") /\ call.self = m /\ call.name = name /\ ret.raised = "none"

\* C2: sow on a name the module has as something that is not a Variable, or as a
\* Variable whose exact type is not variable_type, raises ValueError without
\* calling reduce_fn and leaves every attribute as it was.
C2_SowRejects ==
  (/\ Called("sow")
   /\ hasattr(old, call.self, call.name)
   /\ \/ ~isinstance_Variable(old[call.self][call.name])
      \/ old[call.self][call.name].type # call.variable_type)
  => (ret.raised = "ValueError" /\ ~ret.reduce_called /\ attrs = old)

\* sow(Variable, ...) on a name that holds an Intermediate, a subclass of Variable.
C2_Witness ==
  /\ Called("sow")
  /\ old[call.self][call.name].kind = "Variable"
  /\ old[call.self][call.name].type = "Intermediate"
  /\ call.variable_type = "Variable"
  /\ ret.raised = "ValueError"

\* C3: set_attributes without filters assigns, on every module nested in the
\* receiver, each given name the module has, and gives no module a name it lacks.
C3_SetAttributesAll ==
  (Called("set_attributes") /\ call.filters = <<>>)
  => \A m \in Reachable(old, call.self), name \in DOMAIN call.attributes :
       IF hasattr(old, m, name)
         THEN attrs[m][name] = Plain(call.attributes[name])
         ELSE ~hasattr(attrs, m, name)

\* A nested module other than the receiver gets a new value, and some nested
\* module lacks a given name.
C3_Witness ==
  /\ Called("set_attributes") /\ call.filters = <<>>
  /\ \E m \in Reachable(old, call.self) \ {call.self}, name \in DOMAIN call.attributes :
       hasattr(old, m, name) /\ attrs[m][name] # old[m][name]
  /\ \E m \in Reachable(old, call.self), name \in DOMAIN call.attributes :
       ~hasattr(old, m, name)

Matched(filters, m) == \E j \in 1 .. Len(filters) : to_predicate(filters[j], <<>>, m)

\* C4: set_attributes with at least one filter leaves every module that no filter
\* matches with all its attributes as they were.
C4_SetAttributesFrame ==
  (Called("set_attributes") /\ Len(call.filters) >= 1)
  => \A m \in DOMAIN attrs : ~Matched(call.filters, m) => attrs[m] = old[m]

\* A nested module that no filter matches holds a given name with another value,
\* and a matched module is modified.
C4_Witness ==
  /\ Called("set_attributes") /\ Len(call.filters) >= 1
  /\ \E m \in Reachable(old, call.self), name \in DOMAIN call.attributes :
       /\ ~Matched(call.filters, m)
       /\ hasattr(old, m, name)
       /\ old[m][name] # Plain(call.attributes[name])
  /\ \E m \in Reachable(old, call.self) : Matched(call.filters, m) /\ attrs[m] # old[m]

SelectedModules ==
  {m \in Reachable(old, call.self) : call.filters = <<>> \/ Matched(call.filters, m)}

\* C5: set_attributes raises ValueError exactly when raise_if_not_found is set and
\* some given name is on none of the selected modules.
C5_SetAttributesRaises ==
  Called("set_attributes")
  => (ret.raised = "ValueError"
        <=> /\ call.raise_if_not_found
            /\ \E name \in DOMAIN call.attributes :
                 \A m \in SelectedModules : ~hasattr(old, m, name))

\* It raises for a name that only a module no filter selects has.
C5_Witness ==
  /\ Called("set_attributes") /\ ret.raised = "ValueError"
  /\ \E name \in DOMAIN call.attributes :
       /\ \A m \in SelectedModules : ~hasattr(old, m, name)
       /\ \E m \in Reachable(old, call.self) \ SelectedModules : hasattr(old, m, name)
  /\ SelectedModules # {}

ModeNames == {"deterministic", "use_running_average"}

\* C6: right after train() (eval()) every nested module that has deterministic or
\* use_running_average holds False (True) for it; the call does not raise and
\* gives no module an attribute it lacked.
C6_TrainEval ==
  (pc = "returned" /\ call.op \in {"train", "eval"})
  => /\ ret.raised = "none"
     /\ \A m \in Reachable(old, call.self), name \in ModeNames :
          hasattr(attrs, m, name) => attrs[m][name] = Plain(call.op = "eval")
     /\ \A m \in DOMAIN attrs, name \in ModeNames :
          ~hasattr(old, m, name) => ~hasattr(attrs, m, name)

\* eval() turns on both flags, one of them on a module below the receiver, while
\* some nested module lacks one.
C6_Witness ==
  /\ Called("eval")
  /\ \A name \in ModeNames :
       \E m \in Reachable(old, call.self) : old[m][name] = Plain(FALSE)
  /\ \E m \in Reachable(old, call.self) \ {call.self}, name \in ModeNames :
       old[m][name] = Plain(FALSE)
  /\ \E m \in Reachable(old, call.self), name \in ModeNames : ~hasattr(old, m, name)

\* C7: iter_modules yields Modules only, each nested module exactly once under
\* the tuple of keys that leads to it from the receiver, the receiver under (),
\* and every module after all the modules nested in it.
C7_IterModules ==
  Called("iter_modules")
  => LET y == ret.yielded
     IN /\ \A k \in 1 .. Len(y) : isinstance_Module(y[k][2])
        /\ {y[k][2].id : k \in 1 .. Len(y)} = Reachable(attrs, call.self)
        /\ Len(y) = Cardinality(Reachable(attrs, call.self))
        /\ \A k \in 1 .. Len(y) :
             /\ getpath(attrs, ModuleRef(call.self), y[k][1]) = y[k][2]
             /\ y[k][2].id = call.self <=> y[k][1] = <<>>
        /\ \A j, k \in 1 .. Len(y) : IsProperPrefix(y[k][1], y[j][1]) => j < k
        /\ y[Len(y)] = <<<<>>, ModuleRef(call.self)>>

\* A module two keys below the receiver is yielded.
C7_Witness ==
  /\ Called("iter_modules")
  /\ \E k \in 1 .. Len(ret.yielded) : Len(ret.yielded[k][1]) >= 2

\* C8: _module_unflatten on the keys, the graphdef and the children that
\* _module_flatten returned rebuilds every nested module with the attributes
\* and the Variable values it had.
C8_PytreeRoundTrip ==
  Called("unflatten")
  => /\ ret.graphdef.root = call.self
     /\ \A m \in Reachable(attrs, call.self) : ret.module[m] = attrs[m]
     /\ \A k \in 1 .. Len(ret.keys) :
          getpath(ret.module, ModuleRef(call.self), ret.keys[k])
            = getpath(attrs, ModuleRef(call.self), ret.keys[k])

\* Two Variables with different values come back, flattened with keys.
C8_Witness ==
  /\ Called("unflatten") /\ call.with_keys
  /\ Len(ret.keys) >= 2
  /\ ret.children[1][2] # ret.children[2][2]

====
